---------------------------- MODULE Spec2Model ----------------------------
(***************************************************************************)
(* Shader registry of src/graphics/shaders.cpp: the Shaders constructor,   *)
(* Shaders::loadShaders (initial load and reload), the shared geometry     *)
(* buffers, the shaders re-initialised through a static init(), and the    *)
(* singleton shader classes built on first use, the GL calls made by       *)
(* their constructors and by setUniforms, and the destructor.              *)
(*                                                                         *)
(* Four specifications share the actions:                                  *)
(*   Spec          - loading and reloading with failing builds, teardown;  *)
(*   SpecLoad      - loading and reloading with failing builds and reads   *)
(*                   of the table, under the fairness of sequential        *)
(*                   execution;                                            *)
(*   SpecDraw      - loading and reloading on every driver capability,     *)
(*                   with draws through the static init() shaders;         *)
(*   SpecSingleton - the first load followed by construction of and draws  *)
(*                   through the singleton shader classes.                 *)
(*                                                                         *)
(* loadShaders is modelled statement by statement (pc, idx) because        *)
(* several properties speak about the table in the middle of a pass.       *)
(***************************************************************************)
EXTENDS Integers, Sequences, FiniteSets

(***************************************************************************)
(* Bounds of the model.                                                    *)
(***************************************************************************)
\* number of loadShaders passes in a run (the constructor's pass included)
MaxLoads == 3
\* number of build sites (prefix of FlakyOrder) whose build may fail
NumFlaky == 3
\* number of failed builds in a run
MaxFailures == 2
\* number of singleton shader classes (prefix of SingletonOrder) drawn with
NumSingletons == 1
\* number of singleton instances constructed in a run of SpecSingleton
MaxBuilt == 1
\* largest texture unit a caller passes to a setUniforms
MaxTexUnit == 1
\* largest value a caller passes for a non-sampler uniform
MaxValue == 1

(***************************************************************************)
(* Program constants.                                                      *)
(***************************************************************************)
\* m_shaders[i] = -1 : the kind has no program
Sentinel == -1

\* a null pointer in m_callbacks / the null callback of glsl_noinput
NULL == "NULL"

\* The assignments of loadShaders in source order: the kind written and the
\* m_callbacks slot whose object is handed to the build (NULL: glsl_noinput).
BuildOrder ==
    << [kind |-> "ES_NORMAL_MAP",          cb |-> NULL],
       [kind |-> "ES_NORMAL_MAP_LIGHTMAP", cb |-> NULL],
       [kind |-> "ES_SKYBOX",              cb |-> "ES_SKYBOX"],
       [kind |-> "ES_SPLATTING",           cb |-> NULL],
       [kind |-> "ES_WATER",               cb |-> "ES_WATER"],
       [kind |-> "ES_WATER_SURFACE",       cb |-> "ES_WATER"],
       [kind |-> "ES_SPHERE_MAP",          cb |-> NULL],
       [kind |-> "ES_GRASS",               cb |-> "ES_GRASS"],
       [kind |-> "ES_GRASS_REF",           cb |-> "ES_GRASS"],
       [kind |-> "ES_BUBBLES",             cb |-> "ES_BUBBLES"],
       [kind |-> "ES_MOTIONBLUR",          cb |-> "ES_MOTIONBLUR"],
       [kind |-> "ES_GAUSSIAN3H",          cb |-> "ES_GAUSSIAN3H"],
       [kind |-> "ES_GAUSSIAN3V",          cb |-> "ES_GAUSSIAN3V"],
       [kind |-> "ES_MIPVIZ",              cb |-> "ES_MIPVIZ"],
       [kind |-> "ES_COLORIZE",            cb |-> "ES_COLORIZE"],
       [kind |-> "ES_OBJECTPASS",          cb |-> NULL],
       [kind |-> "ES_OBJECT_UNLIT",        cb |-> NULL],
       [kind |-> "ES_OBJECTPASS_REF",      cb |-> NULL],
       [kind |-> "ES_OBJECTPASS_RIMLIT",   cb |-> NULL],
       [kind |-> "ES_SUNLIGHT",            cb |-> NULL],
       [kind |-> "ES_DISPLACE",            cb |-> "ES_DISPLACE"],
       [kind |-> "ES_PASSFAR",             cb |-> "ES_COLORIZE"] >>

\* The shader kinds, in the order the loops "for i in 0 .. ES_COUNT-1" visit
\* them (the enumeration itself is declared in shaders.hpp; loadShaders
\* assigns every kind once, and that order is used here).
KindOrder == [i \in 1..Len(BuildOrder) |-> BuildOrder[i].kind]

Kinds == {KindOrder[i] : i \in 1..Len(KindOrder)}

ES_COUNT == Len(KindOrder)

\* The callback objects the constructor creates, by the slot that holds them.
\* ES_GAUSSIAN3V and ES_GAUSSIAN3H hold the same GaussianBlurProvider.
CtorCallbacks ==
    [k \in Kinds |->
        CASE k = "ES_SKYBOX"     -> "SkyboxProvider"
          [] k = "ES_WATER"      -> "WaterShaderProvider"
          [] k = "ES_GRASS"      -> "GrassShaderProvider"
          [] k = "ES_BUBBLES"    -> "BubbleEffectProvider"
          [] k = "ES_MOTIONBLUR" -> "MotionBlurProvider"
          [] k = "ES_GAUSSIAN3V" -> "GaussianBlurProvider"
          [] k = "ES_GAUSSIAN3H" -> "GaussianBlurProvider"
          [] k = "ES_MIPVIZ"     -> "MipVizProvider"
          [] k = "ES_COLORIZE"   -> "ColorizeProvider"
          [] k = "ES_SUNLIGHT"   -> "SunLightProvider"
          [] k = "ES_DISPLACE"   -> "DisplaceProvider"
          [] OTHER               -> NULL]

\* The shared buffers in the order loadShaders generates them:
\* initQuadVBO, initQuadBuffer, initBillboardVBO, initCubeVBO,
\* initFrustrumVBO, initShadowVPMUBO.
SharedOrder ==
    << "quad_vbo", "tri_vbo", "quad_buffer", "billboardvbo", "cubevbo",
       "cubeindexes", "frustrumvbo", "frustrumindexes",
       "ViewProjectionMatrixesUBO" >>

SharedBuffers == {SharedOrder[i] : i \in 1..Len(SharedOrder)}

\* The static init() calls of loadShaders in source order.
StaticInitOrder ==
    << "BloomBlendShader", "BloomShader", "Gaussian17TapHShader",
       "ComputeGaussian17TapHShader", "Gaussian3HBlurShader",
       "Gaussian3VBlurShader", "Gaussian17TapVShader",
       "ComputeGaussian17TapVShader", "Gaussian6HBlurShader",
       "Gaussian6VBlurShader", "GlowShader", "PassThroughShader",
       "LayerPassThroughShader", "DiffuseEnvMapShader", "RHDebug",
       "MotionBlurShader", "GodFadeShader", "GodRayShader",
       "MLAAColorEdgeDetectionSHader", "MLAABlendWeightSHader",
       "MLAAGatherSHader", "BubbleShader", "PointLightShader",
       "SkyboxShader", "ViewFrustrumShader", "FlipParticleRender",
       "HeightmapSimulationShader", "SimpleParticleRender",
       "SimpleSimulationShader", "ColoredRectShader",
       "ColoredTextureRectShader", "TextureRectShader",
       "UniformColoredTextureRectShader", "ColoredLine" >>

StaticShaders == {StaticInitOrder[i] : i \in 1..Len(StaticInitOrder)}

\* Shaders whose init() returns without building unless the build is WIN32
\* with GLSL >= 420.
ComputeShaders == {"ComputeGaussian17TapHShader", "ComputeGaussian17TapVShader"}

\* The shared buffers an init() binds into the vertex array it creates
\* (createFullScreenVAO binds tri_vbo, createVAO binds quad_vbo).
StaticShared(s) ==
    CASE s \in {"BloomBlendShader", "BloomShader", "Gaussian17TapHShader",
                "Gaussian3HBlurShader", "Gaussian3VBlurShader",
                "Gaussian17TapVShader", "Gaussian6HBlurShader",
                "Gaussian6VBlurShader", "DiffuseEnvMapShader",
                "MotionBlurShader"}                       -> {"tri_vbo"}
      [] s \in {"GlowShader", "PassThroughShader", "LayerPassThroughShader",
                "GodFadeShader", "GodRayShader",
                "MLAAColorEdgeDetectionSHader", "MLAABlendWeightSHader",
                "MLAAGatherSHader"}                       -> {"quad_vbo"}
      [] s = "SkyboxShader"       -> {"cubevbo", "cubeindexes"}
      [] s = "ViewFrustrumShader" -> {"frustrumvbo", "frustrumindexes"}
      [] s \in {"ColoredRectShader", "ColoredTextureRectShader",
                "TextureRectShader", "UniformColoredTextureRectShader"}
                                                          -> {"quad_buffer"}
      [] OTHER -> {}

\* init() generates a buffer of its own (vbo / colorvbo).
StaticOwnsBuffer(s) ==
    s \in {"PointLightShader", "ColoredTextureRectShader", "ColoredLine"}

\* init() generates a vertex array.
StaticHasVao(s) == StaticShared(s) # {} \/ StaticOwnsBuffer(s)

\* Singleton shader classes (built by their constructor on the first
\* getInstance) and the texture unit each sampler is assigned there.
SingletonOrder ==
    << "ObjectPass1Shader", "ToneMapShader", "SSAOShader",
       "DepthOfFieldShader", "TransparentFogShader" >>

\* The singleton classes whose constructor asks the driver for geometry
\* shader support before it builds.
GatedOrder ==
    << "ShadowShader", "InstancedShadowShader", "RefShadowShader",
       "InstancedRefShadowShader", "GrassShadowShader",
       "InstancedGrassShadowShader", "RadianceHintsConstructionShader" >>

GatedShaders == {GatedOrder[i] : i \in 1..Len(GatedOrder)}

Classes == {SingletonOrder[i] : i \in 1..Len(SingletonOrder)} \cup GatedShaders

\* "if (irr_driver->getGLSLVersion() < 150) return;"
MinGeometryGLSL == 150

\* "if (irr_driver->getGLSLVersion() < 420) return;"
MinComputeGLSL == 420

\* the arguments of AssignTextureUnit(Program, TexUnit(unit, name), ...)
SingletonTexUnits(c) ==
    CASE c = "ObjectPass1Shader"    -> << <<0, "tex">> >>
      [] c = "ToneMapShader"        -> << <<0, "text">> >>
      [] c = "SSAOShader"           -> << <<0, "dtex">> >>
      [] c = "DepthOfFieldShader"   -> << <<0, "tex">>, <<1, "dtex">> >>
      [] c = "TransparentFogShader" -> << <<0, "tex">> >>
      [] c \in {"RefShadowShader", "InstancedRefShadowShader",
                "GrassShadowShader", "InstancedGrassShadowShader"}
                                    -> << <<0, "tex">> >>
      [] c = "RadianceHintsConstructionShader"
                                    -> << <<0, "ctex">>, <<1, "ntex">>, <<2, "dtex">> >>
      [] OTHER                      -> << >>

\* the arguments of AssignUniforms(...)
ClassUniforms(c) ==
    CASE c = "ObjectPass1Shader"    -> << "ModelMatrix", "InverseModelMatrix" >>
      [] c = "SSAOShader"           -> << "radius", "k", "sigma" >>
      [] c = "TransparentFogShader" -> << "ModelMatrix", "TextureMatrix", "fogmax",
                                          "startH", "endH", "start", "end", "col" >>
      [] c \in {"ShadowShader", "RefShadowShader"} -> << "ModelMatrix" >>
      [] c = "GrassShadowShader"    -> << "ModelMatrix", "windDir" >>
      [] c = "InstancedGrassShadowShader" -> << "windDir" >>
      [] c = "RadianceHintsConstructionShader"
                                    -> << "RSMMatrix", "RHMatrix", "extents" >>
      [] OTHER                      -> << >>

\* the constructor calls glUniformBlockBinding for the block "MatrixesData"
ClassBindsBlock(c) ==
    c \notin {"ToneMapShader", "RadianceHintsConstructionShader"}

\* singleton constructors that end with createFullScreenVAO(Program)
SingletonFullScreen(c) ==
    c \in {"ToneMapShader", "SSAOShader", "DepthOfFieldShader",
           "RadianceHintsConstructionShader"}

\* The stage list handed to LoadProgram by a gated constructor when the
\* driver has the vertex-shader-layer extension.
GatedLayerStages(c) ==
    CASE c = "ShadowShader" ->
           << <<"GL_VERTEX_SHADER", "shadow.vert">>,
              <<"GL_FRAGMENT_SHADER", "white.frag">> >>
      [] c = "InstancedShadowShader" ->
           << <<"GL_VERTEX_SHADER", "utils/getworldmatrix.vert">>,
              <<"GL_VERTEX_SHADER", "instanciedshadow.vert">>,
              <<"GL_FRAGMENT_SHADER", "white.frag">> >>
      [] c = "RefShadowShader" ->
           << <<"GL_VERTEX_SHADER", "shadow.vert">>,
              <<"GL_FRAGMENT_SHADER", "object_unlit.frag">> >>
      [] c = "InstancedRefShadowShader" ->
           << <<"GL_VERTEX_SHADER", "utils/getworldmatrix.vert">>,
              <<"GL_VERTEX_SHADER", "instanciedshadow.vert">>,
              <<"GL_FRAGMENT_SHADER", "object_unlit.frag">> >>
      [] c = "GrassShadowShader" ->
           << <<"GL_VERTEX_SHADER", "shadow_grass.vert">>,
              <<"GL_FRAGMENT_SHADER", "object_unlit.frag">> >>
      [] c = "InstancedGrassShadowShader" ->
           << <<"GL_VERTEX_SHADER", "utils/getworldmatrix.vert">>,
              <<"GL_VERTEX_SHADER", "instanciedgrassshadow.vert">>,
              <<"GL_FRAGMENT_SHADER", "object_unlit.frag">> >>
      [] c = "RadianceHintsConstructionShader" ->
           << <<"GL_VERTEX_SHADER", "slicedscreenquad.vert">>,
              <<"GL_FRAGMENT_SHADER", "rh.frag">> >>

\* The stage list handed to LoadProgram by a gated constructor when the
\* driver lacks the vertex-shader-layer extension.
GatedGeometryStages(c) ==
    CASE c = "ShadowShader" ->
           << <<"GL_VERTEX_SHADER", "shadow.vert">>,
              <<"GL_GEOMETRY_SHADER", "shadow.geom">>,
              <<"GL_FRAGMENT_SHADER", "white.frag">> >>
      [] c = "InstancedShadowShader" ->
           << <<"GL_VERTEX_SHADER", "utils/getworldmatrix.vert">>,
              <<"GL_VERTEX_SHADER", "instanciedshadow.vert">>,
              <<"GL_GEOMETRY_SHADER", "shadow.geom">>,
              <<"GL_FRAGMENT_SHADER", "white.frag">> >>
      [] c = "RefShadowShader" ->
           << <<"GL_VERTEX_SHADER", "shadow.vert">>,
              <<"GL_GEOMETRY_SHADER", "shadow.geom">>,
              <<"GL_FRAGMENT_SHADER", "object_unlit.frag">> >>
      [] c = "InstancedRefShadowShader" ->
           << <<"GL_VERTEX_SHADER", "utils/getworldmatrix.vert">>,
              <<"GL_VERTEX_SHADER", "instanciedshadow.vert">>,
              <<"GL_GEOMETRY_SHADER", "shadow.geom">>,
              <<"GL_FRAGMENT_SHADER", "object_unlit.frag">> >>
      [] c = "GrassShadowShader" ->
           << <<"GL_VERTEX_SHADER", "shadow_grass.vert">>,
              <<"GL_GEOMETRY_SHADER", "shadow.geom">>,
              <<"GL_FRAGMENT_SHADER", "object_unlit.frag">> >>
      [] c = "InstancedGrassShadowShader" ->
           << <<"GL_VERTEX_SHADER", "utils/getworldmatrix.vert">>,
              <<"GL_VERTEX_SHADER", "instanciedgrassshadow.vert">>,
              <<"GL_GEOMETRY_SHADER", "shadow.geom">>,
              <<"GL_FRAGMENT_SHADER", "object_unlit.frag">> >>
      [] c = "RadianceHintsConstructionShader" ->
           << <<"GL_VERTEX_SHADER", "slicedscreenquad.vert">>,
              <<"GL_GEOMETRY_SHADER", "rhpassthrough.geom">>,
              <<"GL_FRAGMENT_SHADER", "rh.frag">> >>

\* The static-init shaders a caller draws with in this model, the uniform
\* names their init() resolves, and which of those are samplers.
DrawnStatic ==
    {"BloomShader", "BloomBlendShader", "SkyboxShader", "ViewFrustrumShader",
     "PointLightShader", "SimpleParticleRender", "ColoredLine"}

StaticUniforms(s) ==
    CASE s = "BloomShader"          -> << "tex" >>
      [] s = "BloomBlendShader"     -> << "tex_128", "tex_256", "tex_512" >>
      [] s = "SkyboxShader"         -> << "ModelMatrix", "tex" >>
      [] s = "ViewFrustrumShader"   -> << "color", "idx" >>
      [] s = "PointLightShader"     -> << "ntex", "dtex", "spec" >>
      [] s = "SimpleParticleRender" -> << "ProjectionMatrix", "ViewMatrix", "tex",
                                          "invproj", "dtex", "color_from",
                                          "color_to" >>
      [] s = "FlipParticleRender"   -> << "ProjectionMatrix", "ViewMatrix", "tex",
                                          "invproj", "dtex" >>
      [] s = "ColoredLine"          -> << "color" >>
      [] OTHER                      -> << >>

StaticSamplers(s) ==
    CASE s = "BloomShader"          -> {"tex"}
      [] s = "BloomBlendShader"     -> {"tex_128", "tex_256", "tex_512"}
      [] s = "SkyboxShader"         -> {"tex"}
      [] s = "PointLightShader"     -> {"ntex", "dtex"}
      [] s = "SimpleParticleRender" -> {"tex", "dtex"}
      [] s = "FlipParticleRender"   -> {"tex", "dtex"}
      [] OTHER                      -> {}

\* variant: no init() asserts anything
StaticAsserted_None(s) == << >>

\* the uniforms init() asserts to be present
StaticAsserted(s) ==
    IF s = "SimpleParticleRender" THEN << "color_from", "color_to" >> ELSE << >>

\* static-init shaders whose setUniforms starts with
\* "if (irr_driver->needUBOWorkaround()) bypassUBO(Program);"
StaticBypass == {"ColoredLine", "SkyboxShader", "PointLightShader"}

\* the uniforms bypassUBO looks up and writes, in source order
CameraUniforms ==
    << "ViewMatrix", "ProjectionMatrix", "InverseViewMatrix",
       "InverseProjectionMatrix", "screen" >>

\* the binding point handed to glUniformBlockBinding for "MatrixesData"
MatrixesDataBinding == 0

(***************************************************************************)
(* Inputs: which builds may fail.                                          *)
(***************************************************************************)
FlakyOrder ==
    << "ES_SKYBOX", "ES_MIPVIZ", "BloomShader", "ES_PASSFAR", "SkyboxShader",
       "ES_GAUSSIAN3V", "PointLightShader", "ES_WATER" >>

Min(a, b) == IF a < b THEN a ELSE b

Flaky == {FlakyOrder[i] : i \in 1..Min(NumFlaky, Len(FlakyOrder))}

Singletons == {SingletonOrder[i] : i \in 1..Min(NumSingletons, Len(SingletonOrder))}

VARIABLES
    pc,             \* position: "uninit", "save", "build", "check", "merge",
                    \*           "buffers", "inits", "ready", "aborted",
                    \*           "destroyed"
    idx,            \* loop / statement index inside the current pc
    m_shaders,      \* Shaders::m_shaders
    m_callbacks,    \* Shaders::m_callbacks
    saved_shaders,  \* the local saved_shaders of loadShaders
    nextMaterial,   \* next material id the video driver hands out
    log,            \* Log::error output: sequence of <<pass, kind>>
    SharedObject,   \* quad_vbo, tri_vbo, quad_buffer, SharedObject::*
    glBuffers,      \* GL buffer objects in existence: name -> owner
    bufferData,     \* per buffer object, the function whose glBufferData
                    \* call wrote its data store last
    Program,        \* <Shader>::Program of the static-init shaders
    vao,            \* <Shader>::vao: [id, bufs] of the static-init shaders
    nextProgram,    \* next GL program name
    nextVao,        \* next GL vertex array name
    instance,       \* singleton instances, see NoInstance
    computeOK,      \* the build is WIN32 and GLSL >= 420
    loads,          \* completed loadShaders passes
    failures,       \* failed builds so far in the run
    caps,           \* irr_driver: [glsl, vsLayer, uboWorkaround], and
                    \* whether assert() is compiled in: [asserts]
    missing,        \* uniform names the shader sources do not declare
    heap,           \* callback objects allocated with new and not deleted
    blockBinding,   \* glUniformBlockBinding in effect: {<<program, point>>}
    glTrace,        \* calls made by the last constructor / setUniforms /
                    \* destructor
    lastOp,         \* the last operation of the caller: [op, shader, at]
    \* history of the current / previous pass, read only by the properties
    entry_shaders,  \* m_shaders when the current pass was entered
    fresh,          \* result of each kind's build in the current pass
    prevFresh,      \* the same for the previous pass
    wasValid,       \* kinds that were non-sentinel at the end of some pass
    entryProgram,   \* Program when the current pass was entered
    entryInstance,  \* instance when the current pass was entered
    freshProgram,   \* result of LoadProgram per static shader in this pass
    attempts,       \* builds of each kind attempted in the current pass
    builtWith       \* the callback object each kind's last build received

vars == << pc, idx, m_shaders, m_callbacks, saved_shaders, nextMaterial, log,
           SharedObject, glBuffers, Program, vao, nextProgram, nextVao,
           instance, computeOK, loads, failures, caps, missing, heap,
           blockBinding, glTrace, lastOp, entry_shaders, fresh,
           prevFresh, wasValid, entryProgram, entryInstance, freshProgram,
           bufferData, attempts, builtWith >>

regVars  == << m_shaders, m_callbacks, saved_shaders, nextMaterial, log >>
glVars   == << SharedObject, glBuffers, bufferData, Program, vao, nextProgram,
              nextVao >>
envVars  == << computeOK, caps, missing >>
callVars == << glTrace, lastOp >>
histVars == << entry_shaders, fresh, prevFresh, wasValid, entryProgram,
              entryInstance, freshProgram, attempts, builtWith >>

\* a history entry no build has written yet
NotBuilt == Sentinel - 1
\* a kind no build has been attempted for yet
Unbuilt == "unbuilt"
\* a vao field no init() has written yet
NoVao == [id |-> 0, bufs |-> {}]
\* a singleton class whose getInstance() has not been called yet
\*   loaded:   the constructor assigned Program from LoadProgram
\*   stages:   the stage list handed to LoadProgram
\*   uniforms: the locations AssignUniforms resolved, in declaration order
\*   TU:       the (unit, sampler) pairs handed to AssignTextureUnit
NoInstance ==
    [built |-> FALSE, loaded |-> FALSE, Program |-> 0, stages |-> << >>,
     uniforms |-> << >>, TU |-> << >>, vaoBufs |-> {}]
\* no operation of the caller yet
NoOp == [op |-> "none", shader |-> "", at |-> "uninit"]

(***************************************************************************)
(* Helpers translated from the source.                                     *)
(***************************************************************************)
\* gpu->addHighLevelShaderMaterialFromFiles: a new material id, or -1
addHighLevelShaderMaterialFromFiles(ok, next) == IF ok THEN next ELSE Sentinel

\* LoadProgram / LoadTFBProgram: a new program handle, or the failure value
LoadProgram(ok, next) == IF ok THEN next ELSE Sentinel

\* Log::error("shaders", "Shader %s failed to load. ...", shader_names[num]+3)
LogError(lg, pass, num) == Append(lg, <<pass, num>>)

\* Shaders::check(num)
check(tbl, lg, pass, num) ==
    IF tbl[num] = Sentinel THEN LogError(lg, pass, num) ELSE lg

\* variant: the loop without its "if (i == ES_MIPVIZ) continue;"
CheckIteration_NoSkip(tbl, lg, pass, i) == check(tbl, lg, pass, i)

\* body of the loop "Check that all successfully loaded" for one i
CheckIteration(tbl, lg, pass, i) ==
    IF i = "ES_MIPVIZ" THEN lg ELSE check(tbl, lg, pass, i)

\* variant: the loop body without the restore from saved_shaders
MergeIteration_NoRestore(cur, saved) == cur

\* variant: a saved program, once there is one, is never replaced
MergeIteration_PreferSaved(cur, saved) == IF saved # Sentinel THEN saved ELSE cur

\* body of the loop "keep the previous, working one" for one i
MergeIteration(cur, saved) == IF cur = Sentinel THEN saved ELSE cur

\* variant: saved_shaders is filled with -1 instead of copied
SaveShaders_None(tbl) == [k \in Kinds |-> Sentinel]

\* variant: saved_shaders receives the table of the previous pass's entry
SaveShaders_Stale(tbl) == entry_shaders

\* memcpy(saved_shaders, m_shaders, sizeof(m_shaders))
SaveShaders(tbl) == tbl

\* variant: the entry is read from the copy made at the start of the pass
getShader_Saved(num) == saved_shaders[num]

\* Shaders::getShader(num): "return (E_MATERIAL_TYPE)m_shaders[num];"
getShader(num) == m_shaders[num]

\* the outcomes a build site can have at this point of the run
Outcomes(site) ==
    IF site \in Flaky /\ failures < MaxFailures THEN {TRUE, FALSE} ELSE {TRUE}

\* glGetUniformLocation reports a name the program does not have by -1
InvalidLocation == -1

\* The uniform names of the model; a linked program numbers the uniforms it
\* has from 0, and the model gives a name the same number in every program.
UniformNameOrder ==
    << "tex", "text", "dtex", "ctex", "ntex", "ModelMatrix",
       "InverseModelMatrix", "TextureMatrix", "radius", "k", "sigma",
       "fogmax", "startH", "endH", "start", "end", "col", "windDir",
       "RSMMatrix", "RHMatrix", "extents", "tex_128", "tex_256", "tex_512",
       "color", "idx", "spec", "ProjectionMatrix", "ViewMatrix", "invproj",
       "color_from", "color_to", "InverseViewMatrix",
       "InverseProjectionMatrix", "screen" >>

\* glGetUniformLocation(Program, name).  The result is kept in a GLuint and
\* handed back to glUniform*(GLint, ...) or compared with -1 converted to
\* GLuint; both conversions map -1 to itself and a location to itself.
glGetUniformLocation(P, name) ==
    IF P < 1 \/ name \in missing
      THEN InvalidLocation
      ELSE (CHOOSE i \in 1..Len(UniformNameOrder) : UniformNameOrder[i] = name) - 1

\* one GL call: glUseProgram(prog), or glUniform*(loc, val) with the
\* location looked up in program prog under name
GLCall(call, prog, name, loc, val) ==
    [call |-> call, prog |-> prog, name |-> name, loc |-> loc, val |-> val]

glUseProgram(P) == GLCall("glUseProgram", P, "", InvalidLocation, 0)

\* "GLuint uniform = glGetUniformLocation(Program, texUnit.m_uniform);
\*  glUniform1i(uniform, texUnit.m_index);"
TexUnitCall(P, texUnit) ==
    GLCall("glUniform1i", P, texUnit[2], glGetUniformLocation(P, texUnit[2]),
           texUnit[1])

\* AssignTextureUnit_Sub(Program, rest...)
RECURSIVE AssignTextureUnit_Sub(_, _)
AssignTextureUnit_Sub(P, rest) ==
    IF rest = << >>
      THEN << >>
      ELSE << TexUnitCall(P, Head(rest)) >> \o AssignTextureUnit_Sub(P, Tail(rest))

\* variant: only the first (unit, sampler) pair is assigned
AssignTextureUnit_FirstOnly(P, units) ==
    << glUseProgram(P), TexUnitCall(P, Head(units)), glUseProgram(0) >>

\* AssignTextureUnit(Program, texUnit, rest...): the GL calls it makes
AssignTextureUnit(P, units) ==
    << glUseProgram(P), TexUnitCall(P, Head(units)) >>
        \o AssignTextureUnit_Sub(P, Tail(units))
        \o << glUseProgram(0) >>

\* AssignUniforms(names...): the locations kept for setUniforms
AssignUniforms(P, names) ==
    [i \in 1..Len(names) |-> glGetUniformLocation(P, names[i])]

\* variant: the values are written in reverse declaration order
setUniforms_Reversed(obj, names, args) ==
    [i \in 1..Len(obj.uniforms) |->
        GLCall("glUniform", obj.Program, names[i], obj.uniforms[i],
               args[Len(args) + 1 - i])]

\* ShaderHelper<>::setUniforms(args...): one glUniform* per declared name
setUniforms(obj, names, args) ==
    [i \in 1..Len(obj.uniforms) |->
        GLCall("glUniform", obj.Program, names[i], obj.uniforms[i], args[i])]

\* variant: the screen size is not written
bypassUBO_NoScreen(P) ==
    [i \in 1..(Len(CameraUniforms) - 1) |->
        GLCall("glUniform", P, CameraUniforms[i],
               glGetUniformLocation(P, CameraUniforms[i]), 0)]

\* bypassUBO(Program): the camera state written uniform by uniform
bypassUBO(P) ==
    [i \in 1..Len(CameraUniforms) |->
        GLCall("glUniform", P, CameraUniforms[i],
               glGetUniformLocation(P, CameraUniforms[i]), 0)]

\* glUniform*(uniform_<name>, val) with the location init() resolved in P
Uniform(P, name, val) ==
    GLCall("glUniform", P, name, glGetUniformLocation(P, name), val)

\* <Shader>::setUniforms(...) of a static-init shader, after the bypass:
\* tu is the first texture unit argument, x the value of the other arguments
StaticOwnUniforms(s, P, tu, x) ==
    CASE s = "BloomShader" ->
           << Uniform(P, "tex", tu) >>
      [] s = "BloomBlendShader" ->
           << Uniform(P, "tex_128", tu), Uniform(P, "tex_256", tu + 1),
              Uniform(P, "tex_512", tu + 2) >>
      [] s = "SkyboxShader" ->
           << Uniform(P, "ModelMatrix", x), Uniform(P, "tex", tu) >>
      [] s = "ViewFrustrumShader" ->
           << Uniform(P, "color", x), Uniform(P, "idx", x) >>
      [] s = "PointLightShader" ->
           << Uniform(P, "spec", 200), Uniform(P, "ntex", tu),
              Uniform(P, "dtex", tu + 1) >>
      [] s = "SimpleParticleRender" ->
           << Uniform(P, "invproj", x), Uniform(P, "ProjectionMatrix", 0),
              Uniform(P, "ViewMatrix", 0), Uniform(P, "tex", tu),
              Uniform(P, "dtex", tu + 1), Uniform(P, "color_from", x),
              Uniform(P, "color_to", x) >>
      [] s = "ColoredLine" ->
           << Uniform(P, "color", x), Uniform(P, "ModelMatrix", 0) >>

\* <Shader>::setUniforms(...) of a static-init shader
StaticSetUniforms(s, P, needUBOWorkaround, tu, x) ==
    (IF s \in StaticBypass /\ needUBOWorkaround THEN bypassUBO(P) ELSE << >>)
        \o StaticOwnUniforms(s, P, tu, x)

\* "assert(uniform_<name> != -1)" for each name fails
AssertFails(P, names) ==
    /\ caps.asserts
    /\ \E i \in 1..Len(names) : glGetUniformLocation(P, names[i]) = InvalidLocation

\* variant: a draw may start wherever the registry is
CallerIdle_Anywhere == pc \notin {"uninit", "aborted", "destroyed"}

\* the single thread that owns the GL context is not inside loadShaders
CallerIdle == pc = "ready"

(***************************************************************************)
(* Initial state: a Shaders object whose constructor has not run.  The     *)
(* members are uninitialised memory; the file-scope GLuint statics are 0.  *)
(***************************************************************************)
InitCommon ==
    /\ pc = "uninit"
    /\ idx = 0
    /\ m_shaders \in {[k \in Kinds |-> Sentinel], [k \in Kinds |-> 0]}
    /\ m_callbacks = [k \in Kinds |-> NULL]
    /\ saved_shaders = [k \in Kinds |-> Sentinel]
    /\ nextMaterial = 1
    /\ log = << >>
    /\ SharedObject = [b \in SharedBuffers |-> 0]
    /\ glBuffers = << >>
    /\ bufferData = << >>
    /\ Program = [s \in StaticShaders |-> 0]
    /\ vao = [s \in StaticShaders |-> NoVao]
    /\ nextProgram = 1
    /\ nextVao = 1
    /\ instance = [c \in Classes |-> NoInstance]
    /\ loads = 0
    /\ heap = {}
    /\ blockBinding = {}
    /\ glTrace = << >>
    /\ lastOp = NoOp
    /\ entry_shaders = [k \in Kinds |-> Sentinel]
    /\ fresh = [k \in Kinds |-> NotBuilt]
    /\ prevFresh = [k \in Kinds |-> NotBuilt]
    /\ wasValid = {}
    /\ entryProgram = [s \in StaticShaders |-> 0]
    /\ entryInstance = [c \in Classes |-> NoInstance]
    /\ freshProgram = [s \in StaticShaders |-> NotBuilt]
    /\ attempts = [k \in Kinds |-> 0]
    /\ builtWith = [k \in Kinds |-> Unbuilt]

\* the GLSL versions a driver reports in this model
GLSLVersions == {MinGeometryGLSL - 1, MinGeometryGLSL, MinComputeGLSL}

\* the sets of uniform names absent from the shader sources
MissingChoices ==
    {{}} \cup {{n} : n \in {"color_from", "color_to", "tex", "ModelMatrix"}}

\* a current driver, a build that is not WIN32, complete shader sources,
\* builds that may fail
Init ==
    /\ InitCommon
    /\ failures = 0
    /\ computeOK = FALSE
    /\ caps = [glsl |-> MinComputeGLSL, vsLayer |-> TRUE,
               uboWorkaround |-> FALSE, asserts |-> TRUE]
    /\ missing = {}

\* a current driver, any build, complete shader sources, builds that may
\* fail
InitLoad ==
    /\ InitCommon
    /\ failures = 0
    /\ computeOK \in BOOLEAN
    /\ caps = [glsl |-> MinComputeGLSL, vsLayer |-> TRUE,
               uboWorkaround |-> FALSE, asserts |-> TRUE]
    /\ missing = {}

\* any driver and build, shader sources that may lack a uniform, builds
\* that succeed
InitDraw ==
    /\ InitCommon
    /\ failures = MaxFailures
    /\ caps \in [glsl : GLSLVersions, vsLayer : {TRUE},
                  uboWorkaround : BOOLEAN, asserts : BOOLEAN]
    /\ computeOK \in (IF caps.glsl >= MinComputeGLSL THEN BOOLEAN ELSE {FALSE})
    /\ missing \in MissingChoices

\* any driver, a build without assert(), builds that succeed
InitSingleton ==
    /\ InitCommon
    /\ failures = MaxFailures
    /\ caps \in [glsl : GLSLVersions, vsLayer : BOOLEAN,
                  uboWorkaround : BOOLEAN, asserts : {FALSE}]
    /\ computeOK = FALSE
    /\ missing \in MissingChoices

(***************************************************************************)
(* Shaders::Shaders(): callbacks, m_shaders[i] = -1, then loadShaders().   *)
(***************************************************************************)
\* the callback objects the constructor allocates
NewCallbacks == {CtorCallbacks[k] : k \in Kinds} \ {NULL}

\* the operation loadShaders, entered from position at
LoadOp(at) == [op |-> "loadShaders", shader |-> "", at |-> at]

\* variant: the constructor leaves the table as it found it
InitialTable_Untouched(tbl) == tbl

\* "for (s32 i = 0; i < ES_COUNT; i++) m_shaders[i] = -1;"
InitialTable(tbl) == [k \in Kinds |-> Sentinel]

Shaders_ctor ==
    /\ pc = "uninit"
    /\ m_callbacks' = CtorCallbacks
    /\ heap' = heap \cup NewCallbacks
    /\ m_shaders' = InitialTable(m_shaders)
    /\ pc' = "save"
    /\ idx' = 0
    /\ lastOp' = LoadOp(pc)
    /\ glTrace' = << >>
    /\ UNCHANGED << saved_shaders, nextMaterial, log, glVars, instance,
                    envVars, blockBinding, loads, failures, histVars >>

\* a reload: loadShaders() called again on the constructed registry
Reload ==
    /\ pc = "ready"
    /\ loads < MaxLoads
    /\ pc' = "save"
    /\ idx' = 0
    /\ lastOp' = LoadOp(pc)
    /\ glTrace' = << >>
    /\ UNCHANGED << regVars, glVars, instance, envVars, heap, blockBinding,
                    loads, failures, histVars >>

\* loadShaders: "Save previous shaders"
LS_Save ==
    /\ pc = "save"
    /\ saved_shaders' = SaveShaders(m_shaders)
    /\ entry_shaders' = m_shaders
    /\ entryProgram' = Program
    /\ entryInstance' = instance
    /\ prevFresh' = fresh
    /\ attempts' = [k \in Kinds |-> 0]
    /\ pc' = "build"
    /\ idx' = 1
    /\ UNCHANGED << m_shaders, m_callbacks, nextMaterial, log, glVars,
                    instance, envVars, heap, blockBinding, callVars, loads,
                    failures, fresh, wasValid, freshProgram, builtWith >>

\* the callback argument of the build at site: glsl_noinput passes none,
\* glsl and glslmat pass m_callbacks[site.cb]
CallbackArg(site, cbs) == IF site.cb = NULL THEN NULL ELSE cbs[site.cb]

\* variant: a build that returned -1 is attempted again
NextBuildIndex_Retry(i, h) == IF h = Sentinel THEN i ELSE i + 1

\* the assignments are straight-line code: whatever the build returned,
\* the next statement is the next assignment
NextBuildIndex(i, h) == i + 1

\* loadShaders: one assignment m_shaders[kind] = glsl*(...)
LS_Build ==
    /\ pc = "build"
    /\ LET site == BuildOrder[idx] IN
       \E ok \in Outcomes(site.kind) :
         LET h == addHighLevelShaderMaterialFromFiles(ok, nextMaterial) IN
         /\ m_shaders' = [m_shaders EXCEPT ![site.kind] = h]
         /\ fresh' = [fresh EXCEPT ![site.kind] = h]
         /\ nextMaterial' = IF ok THEN nextMaterial + 1 ELSE nextMaterial
         /\ failures' = IF ok THEN failures ELSE failures + 1
         /\ attempts' = [attempts EXCEPT ![site.kind] = @ + 1]
         /\ builtWith' = [builtWith EXCEPT
                            ![site.kind] = CallbackArg(site, m_callbacks)]
         /\ IF NextBuildIndex(idx, h) <= Len(BuildOrder)
              THEN pc' = "build" /\ idx' = NextBuildIndex(idx, h)
              ELSE pc' = "check" /\ idx' = 1
    /\ UNCHANGED << m_callbacks, saved_shaders, log, glVars, instance,
                    envVars, heap, blockBinding, callVars, loads,
                    entry_shaders, prevFresh, wasValid, entryProgram,
                    entryInstance, freshProgram >>

\* the loop "Check that all successfully loaded", from index i on
RECURSIVE CheckAll(_, _, _, _)
CheckAll(tbl, lg, pass, i) ==
    IF i > ES_COUNT
      THEN lg
      ELSE CheckAll(tbl, CheckIteration(tbl, lg, pass, KindOrder[i]), pass, i + 1)

\* variant: a failure the check loop reports ends the pass
AfterCheck_Fatal(before, after) == IF after # before THEN "aborted" ELSE "merge"

\* where control goes after the check loop: check() returns after
\* Log::error, so the merge loop always follows
AfterCheck(before, after) == "merge"

\* loadShaders: the loop "Check that all successfully loaded"
LS_Check ==
    /\ pc = "check"
    /\ log' = CheckAll(m_shaders, log, loads + 1, 1)
    /\ pc' = AfterCheck(log, log')
    /\ idx' = 0
    /\ UNCHANGED << m_shaders, m_callbacks, saved_shaders, nextMaterial,
                    glVars, instance, envVars, heap, blockBinding, callVars,
                    loads, failures, histVars >>

\* the loop "keep the previous, working one"
MergeAll(tbl, saved) == [i \in Kinds |-> MergeIteration(tbl[i], saved[i])]

\* loadShaders: the loop "keep the previous, working one"
LS_Merge ==
    /\ pc = "merge"
    /\ m_shaders' = MergeAll(m_shaders, saved_shaders)
    /\ pc' = "buffers"
    /\ idx' = 0
    /\ UNCHANGED << m_callbacks, saved_shaders, nextMaterial, log, glVars,
                    instance, envVars, heap, blockBinding, callVars, loads,
                    failures, histVars >>

\* glGenBuffers(1, &field): a new buffer object, recorded with its owner
glGenBuffers(glb, owner) == Append(glb, owner)

\* initQuadVBO .. initShadowVPMUBO: every call generates its buffers anew
InitSharedBuffers(glb) == glb \o SharedOrder

\* the function of lines 135-281 that fills shared buffer b
SharedInit(b) ==
    CASE b \in {"quad_vbo", "tri_vbo"}               -> "initQuadVBO"
      [] b = "quad_buffer"                           -> "initQuadBuffer"
      [] b = "billboardvbo"                          -> "initBillboardVBO"
      [] b \in {"cubevbo", "cubeindexes"}            -> "initCubeVBO"
      [] b \in {"frustrumvbo", "frustrumindexes"}    -> "initFrustrumVBO"
      [] b = "ViewProjectionMatrixesUBO"             -> "initShadowVPMUBO"

\* a buffer object whose data store no glBufferData call has written
Unwritten == "unwritten"

\* glBufferData(target, ...) issued by function writer while buffer object
\* handle is bound to the target; handle 0 is no buffer object
glBufferData(bd, handle, writer) ==
    IF handle \in 1..Len(bd) THEN [bd EXCEPT ![handle] = writer] ELSE bd

\* initQuadVBO .. initShadowVPMUBO: each binds the buffer it has just
\* generated and fills it with glBufferData
InitSharedData(bd) ==
    bd \o [i \in 1..Len(SharedOrder) |-> SharedInit(SharedOrder[i])]

\* variant: the shared globals keep the handles of the first generation
SharedHandles_First(glb) ==
    [b \in SharedBuffers |->
        CHOOSE i \in 1..Len(SharedOrder) : SharedOrder[i] = b]

\* the handles the shared globals hold after InitSharedBuffers(glb)
SharedHandles(glb) ==
    [b \in SharedBuffers |->
        Len(glb) + (CHOOSE i \in 1..Len(SharedOrder) : SharedOrder[i] = b)]

\* loadShaders: initGL() .. initShadowVPMUBO()
LS_InitBuffers ==
    /\ pc = "buffers"
    /\ glBuffers' = InitSharedBuffers(glBuffers)
    /\ bufferData' = InitSharedData(bufferData)
    /\ SharedObject' = SharedHandles(glBuffers)
    /\ pc' = "inits"
    /\ idx' = 0
    /\ UNCHANGED << regVars, Program, vao, nextProgram, nextVao, instance,
                    envVars, heap, blockBinding, callVars, loads, failures,
                    histVars >>

\* <Shader>::init(): Program = LoadProgram(...), unconditionally
InitProgram(old, h) == h

\* the vertex array an init() builds: the shared buffers it binds and the
\* buffer it generates itself
InitVao(s, id, shared, own) ==
    IF StaticHasVao(s)
      THEN [id |-> id,
            bufs |-> {shared[b] : b \in StaticShared(s)}
                       \cup (IF StaticOwnsBuffer(s) THEN {own} ELSE {})]
      ELSE NoVao

\* variant: ColoredTextureRectShader::init() fills the colour buffer
\* before binding it, while quad_buffer is still bound
BufferDataTarget_BeforeBind(s) ==
    CASE s = "ColoredTextureRectShader" -> "quad_buffer"
      [] StaticOwnsBuffer(s)            -> "own"
      [] OTHER                          -> "none"

\* the buffer bound to GL_ARRAY_BUFFER when init() calls glBufferData:
\* the one init() has just generated and bound (vbo / colorvbo); the
\* other init() functions do not call glBufferData
BufferDataTarget(s) == IF StaticOwnsBuffer(s) THEN "own" ELSE "none"

\* the data stores after the glGenBuffers and glBufferData calls of init()
InitBufferData(bd, s, shared) ==
    LET gen == IF StaticOwnsBuffer(s) THEN Append(bd, Unwritten) ELSE bd
        t   == BufferDataTarget(s)
    IN  CASE t = "none" -> gen
          [] t = "own"  -> glBufferData(gen, Len(gen), s)
          [] OTHER      -> glBufferData(gen, shared[t], s)

\* init() calls glUniformBlockBinding for the block "MatrixesData"
StaticBindsBlock(s) ==
    s \in {"ColoredLine", "SkyboxShader", "ViewFrustrumShader", "RHDebug"}

\* variant: the block is bound to the binding point after the one given
glUniformBlockBinding_NextPoint(bb, P, point) ==
    IF P < 1 THEN bb ELSE {e \in bb : e[1] # P} \cup {<<P, point + 1>>}

\* "glUniformBlockBinding(Program, glGetUniformBlockIndex(Program,
\*  "MatrixesData"), point)": without a program the call has no effect
glUniformBlockBinding(bb, P, point) ==
    IF P < 1 THEN bb ELSE {e \in bb : e[1] # P} \cup {<<P, point>>}

\* one call <Shader>::init() on the GL state st; ok: LoadProgram succeeds
StaticInit(st, s, ok, compute) ==
    IF s \in ComputeShaders /\ ~compute
      THEN st
      ELSE LET h == LoadProgram(ok, st.nextProgram) IN
           [Program      |-> [st.Program EXCEPT ![s] = InitProgram(st.Program[s], h)],
            freshProgram |-> [st.freshProgram EXCEPT ![s] = h],
            nextProgram  |-> IF ok THEN st.nextProgram + 1 ELSE st.nextProgram,
            glBuffers    |-> IF StaticOwnsBuffer(s)
                               THEN glGenBuffers(st.glBuffers, s)
                               ELSE st.glBuffers,
            bufferData   |-> InitBufferData(st.bufferData, s, SharedObject),
            vao          |-> [st.vao EXCEPT
                                ![s] = InitVao(s, st.nextVao, SharedObject,
                                               Len(st.glBuffers) + 1)],
            nextVao      |-> IF StaticHasVao(s) THEN st.nextVao + 1 ELSE st.nextVao,
            blockBinding |-> IF StaticBindsBlock(s)
                               THEN glUniformBlockBinding(st.blockBinding, h,
                                                          MatrixesDataBinding)
                               ELSE st.blockBinding,
            aborted      |-> AssertFails(h, StaticAsserted(s))]

\* the init() calls of loadShaders from index i on; F: the inits whose
\* LoadProgram fails in this pass.  A failed assert ends the process.
\* (The state after each init() is bound by a quantifier so that it is
\* computed once.)
RECURSIVE StaticInits(_, _, _, _)
StaticInits(st, i, F, compute) ==
    IF i > Len(StaticInitOrder) \/ st.aborted
      THEN st
      ELSE CHOOSE r \in {StaticInits(x, i + 1, F, compute) :
                             x \in {StaticInit(st, StaticInitOrder[i],
                                               StaticInitOrder[i] \notin F,
                                               compute)}} : TRUE

\* the sets of static-init shaders that can fail in one pass
FailSets ==
    {F \in SUBSET (Flaky \cap StaticShaders) :
        failures + Cardinality(F) <= MaxFailures}

\* variant: the pass discards the singleton instances, so that the next use
\* constructs them again
ReloadInstances_Discard(inst) == [c \in Classes |-> NoInstance]

\* the singleton instances after the init() calls: loadShaders calls no
\* getInstance() and no constructor, and writes no member of an instance
ReloadInstances(inst) == inst

\* loadShaders: BloomBlendShader::init() .. ColoredLine::init(), and return
LS_StaticInits ==
    /\ pc = "inits"
    /\ \E F \in FailSets :
         \E st \in {StaticInits([Program |-> Program, freshProgram |-> freshProgram,
                                 nextProgram |-> nextProgram, glBuffers |-> glBuffers,
                                 bufferData |-> bufferData,
                                 vao |-> vao, nextVao |-> nextVao,
                                 blockBinding |-> blockBinding, aborted |-> FALSE],
                                1, F, computeOK)} :
         /\ Program' = st.Program
         /\ freshProgram' = st.freshProgram
         /\ nextProgram' = st.nextProgram
         /\ glBuffers' = st.glBuffers
         /\ bufferData' = st.bufferData
         /\ vao' = st.vao
         /\ nextVao' = st.nextVao
         /\ blockBinding' = st.blockBinding
         /\ failures' = failures + Cardinality(F)
         /\ pc' = IF st.aborted THEN "aborted" ELSE "ready"
         /\ loads' = IF st.aborted THEN loads ELSE loads + 1
    /\ instance' = ReloadInstances(instance)
    /\ idx' = 0
    /\ wasValid' = wasValid \cup {k \in Kinds : m_shaders[k] # Sentinel}
    /\ UNCHANGED << regVars, SharedObject, envVars, heap, callVars,
                    entry_shaders, fresh, prevFresh, entryProgram,
                    entryInstance, attempts, builtWith >>

\* the values the Program member of a new object can hold before the
\* constructor assigns it
Indeterminate == {0, Sentinel}

\* the constructor returns before LoadProgram:
\* "if (irr_driver->getGLSLVersion() < 150) return;"
ReturnsEarly(c) == c \in GatedShaders /\ caps.glsl < MinGeometryGLSL

\* variant: the branches of "if (irr_driver->hasVSLayerExtension())" swapped
GatedStages_Swapped(c, hasVSLayerExtension) ==
    IF hasVSLayerExtension THEN GatedGeometryStages(c) ELSE GatedLayerStages(c)

\* the stage list of a gated constructor's LoadProgram call
GatedStages(c, hasVSLayerExtension) ==
    IF hasVSLayerExtension THEN GatedLayerStages(c) ELSE GatedGeometryStages(c)

\* the object a constructor leaves behind; P: the result of LoadProgram,
\* garbage: the value of the members the constructor never writes
Construct(c, P, garbage) ==
    IF ReturnsEarly(c)
      THEN [NoInstance EXCEPT !.built = TRUE, !.Program = garbage]
      ELSE [built    |-> TRUE,
            loaded   |-> TRUE,
            Program  |-> P,
            stages   |-> IF c \in GatedShaders
                           THEN GatedStages(c, caps.vsLayer) ELSE << >>,
            uniforms |-> AssignUniforms(P, ClassUniforms(c)),
            TU       |-> SingletonTexUnits(c),
            vaoBufs  |-> IF SingletonFullScreen(c)
                           THEN {SharedObject["tri_vbo"]} ELSE {}]

\* the GL calls of the constructor that set sampler uniforms
ConstructCalls(c, P) ==
    IF ReturnsEarly(c) \/ SingletonTexUnits(c) = << >>
      THEN << >>
      ELSE AssignTextureUnit(P, SingletonTexUnits(c))

\* <Class>::getInstance() between two passes: the first call runs the
\* constructor (LoadProgram, AssignUniforms, glUniformBlockBinding,
\* AssignTextureUnit, createFullScreenVAO)
getInstance(c) ==
    /\ CallerIdle
    /\ ~instance[c].built
    /\ \E ok \in (IF ReturnsEarly(c) THEN {TRUE} ELSE Outcomes(c)),
          garbage \in (IF ReturnsEarly(c) THEN Indeterminate ELSE {0}) :
         LET P == LoadProgram(ok, nextProgram) IN
         /\ instance' = [instance EXCEPT ![c] = Construct(c, P, garbage)]
         /\ glTrace' = ConstructCalls(c, P)
         /\ blockBinding' =
                IF ClassBindsBlock(c) /\ ~ReturnsEarly(c)
                  THEN glUniformBlockBinding(blockBinding, P, MatrixesDataBinding)
                  ELSE blockBinding
         /\ nextProgram' = IF ok /\ ~ReturnsEarly(c)
                             THEN nextProgram + 1 ELSE nextProgram
         /\ failures' = IF ok THEN failures ELSE failures + 1
    /\ nextVao' = IF SingletonFullScreen(c) /\ ~ReturnsEarly(c)
                    THEN nextVao + 1 ELSE nextVao
    /\ lastOp' = [op |-> "ctor", shader |-> c, at |-> pc]
    /\ UNCHANGED << pc, idx, regVars, SharedObject, glBuffers, bufferData,
                    Program, vao, envVars, heap, loads, histVars >>

\* number of singleton instances constructed so far
BuiltCount == Cardinality({c \in Classes : instance[c].built})

\* the first <Class>::getInstance() of a class, while the run may still
\* construct an instance
FirstUse(c) == BuiltCount < MaxBuilt /\ getInstance(c)

\* the values handed to setUniforms: the i-th argument is x + i
Args(n, x) == [i \in 1..n |-> x + i]

\* a draw through a static-init shader: <Shader>::setUniforms(...)
StaticDraw(s) ==
    /\ CallerIdle
    /\ \E tu \in 0..MaxTexUnit, x \in 0..MaxValue :
         glTrace' = StaticSetUniforms(s, Program[s], caps.uboWorkaround, tu, x)
    /\ lastOp' = [op |-> "setUniforms", shader |-> s, at |-> pc]
    /\ UNCHANGED << pc, idx, regVars, glVars, instance, envVars, heap,
                    blockBinding, loads, failures, histVars >>

\* a draw through a material of the table: getShader(kind)
MaterialDraw(k) ==
    /\ CallerIdle
    /\ lastOp' = [op |-> "getShader", shader |-> k, at |-> pc]
    /\ glTrace' = << GLCall("getShader", getShader(k), k, InvalidLocation, 0) >>
    /\ UNCHANGED << pc, idx, regVars, glVars, instance, envVars, heap,
                    blockBinding, loads, failures, histVars >>

\* a draw through a singleton: <Class>::getInstance()->setUniforms(args...)
InstanceDraw(c) ==
    /\ CallerIdle
    /\ instance[c].built
    /\ \E x \in 0..MaxValue :
         glTrace' = setUniforms(instance[c], ClassUniforms(c),
                                Args(Len(instance[c].uniforms), x))
    /\ lastOp' = [op |-> "setUniforms", shader |-> c, at |-> pc]
    /\ UNCHANGED << pc, idx, regVars, glVars, instance, envVars, heap,
                    blockBinding, loads, failures, histVars >>

\* variant: only the empty slots are skipped
DtorSkips_NullOnly(cbs, k) == cbs[k] = NULL

\* "if (i == ES_GAUSSIAN3V || !m_callbacks[i]) continue;"
DtorSkips(cbs, k) == k = "ES_GAUSSIAN3V" \/ cbs[k] = NULL

\* "delete m_callbacks[i];": the slot index and the object deleted
DeleteCall(i, obj) == GLCall("delete", i, obj, InvalidLocation, 0)

\* the delete expressions the destructor's loop executes from slot i on
RECURSIVE DtorDeletes(_, _)
DtorDeletes(cbs, i) ==
    IF i > ES_COUNT
      THEN << >>
      ELSE (IF DtorSkips(cbs, KindOrder[i])
              THEN << >>
              ELSE << DeleteCall(i, cbs[KindOrder[i]]) >>)
           \o DtorDeletes(cbs, i + 1)

\* Shaders::~Shaders(): delete the callback objects
Shaders_dtor ==
    /\ pc = "ready"
    /\ glTrace' = DtorDeletes(m_callbacks, 1)
    /\ heap' = heap \ {glTrace'[j].name : j \in 1..Len(glTrace')}
    /\ pc' = "destroyed"
    /\ lastOp' = [op |-> "dtor", shader |-> "", at |-> pc]
    /\ UNCHANGED << idx, regVars, glVars, instance, envVars, blockBinding,
                    loads, failures, histVars >>

Next ==
    \/ Shaders_ctor
    \/ Reload
    \/ LS_Save
    \/ LS_Build
    \/ LS_Check
    \/ LS_Merge
    \/ LS_InitBuffers
    \/ LS_StaticInits
    \/ \E c \in Singletons : getInstance(c)
    \/ Shaders_dtor

Spec == Init /\ [][Next]_vars

\* the statements of loadShaders
LoadStep ==
    \/ LS_Save
    \/ LS_Build
    \/ LS_Check
    \/ LS_Merge
    \/ LS_InitBuffers
    \/ LS_StaticInits

\* the kinds a caller reads with getShader
DrawnKinds == {"ES_SKYBOX", "ES_WATER"}

NextLoad ==
    \/ Shaders_ctor
    \/ Reload
    \/ LoadStep
    \/ \E k \in DrawnKinds : MaterialDraw(k)

\* loadShaders is straight-line code on one thread: a statement that has
\* been reached is executed
SpecLoad == InitLoad /\ [][NextLoad]_vars /\ WF_vars(LoadStep)

NextDraw ==
    \/ Shaders_ctor
    \/ Reload
    \/ LS_Save
    \/ LS_Build
    \/ LS_Check
    \/ LS_Merge
    \/ LS_InitBuffers
    \/ LS_StaticInits
    \/ \E s \in DrawnStatic : StaticDraw(s)
    \/ \E k \in DrawnKinds : MaterialDraw(k)

SpecDraw == InitDraw /\ [][NextDraw]_vars

NextSingleton ==
    \/ Shaders_ctor
    \/ LS_Save
    \/ LS_Build
    \/ LS_Check
    \/ LS_Merge
    \/ LS_InitBuffers
    \/ LS_StaticInits
    \/ \E c \in Classes : FirstUse(c)
    \/ \E c \in Classes : InstanceDraw(c)

SpecSingleton == InitSingleton /\ [][NextSingleton]_vars

(***************************************************************************)
(* Properties.                                                             *)
(***************************************************************************)
\* the kinds with a program in table tbl
ValidSet(tbl) == {k \in Kinds : tbl[k] # Sentinel}

\* the kinds whose failure the check loop reports
Required == Kinds \ {"ES_MIPVIZ"}

\* a loadShaders pass is between its memcpy and its return
InPass == pc \in {"build", "check", "merge", "buffers", "inits"}

\* number of the pass that is running or, in "ready", that ran last
PassNo == IF pc = "ready" THEN loads ELSE loads + 1

\* how often the log names kind k for pass p
LogCount(p, k) == Cardinality({j \in 1..Len(log) : log[j] = <<p, k>>})

\* the check loop of the current pass has run
Checked == pc \in {"merge", "buffers", "inits"} \/ (pc = "ready" /\ loads >= 1)

\* number of buffer objects in existence that were generated for a shared global
SharedAllocated ==
    Cardinality({n \in 1..Len(glBuffers) : glBuffers[n] \in SharedBuffers})

\* C1: when loadShaders returns, every kind holds the handle built in this
\* pass if that build did not return -1, and otherwise the handle it held
\* when the pass was entered.
C1_MergeRule ==
    pc = "ready" =>
        \A i \in Kinds :
            m_shaders[i] = IF fresh[i] # Sentinel THEN fresh[i] ELSE entry_shaders[i]

\* C1 witness: a reload returned in which one kind fell back to its previous
\* program and another adopted a new one.
C1_Witness ==
    /\ pc = "ready"
    /\ \E i, j \in Kinds :
         /\ fresh[i] = Sentinel /\ entry_shaders[i] # Sentinel
         /\ m_shaders[i] = entry_shaders[i]
         /\ fresh[j] # Sentinel /\ m_shaders[j] = fresh[j]
         /\ entry_shaders[j] # Sentinel /\ m_shaders[j] # entry_shaders[j]

\* C2: a kind that was non-sentinel at the end of some pass is non-sentinel
\* at the end of every later pass, and every kind whose build succeeded in a
\* pass holds that new program at the end of the pass, whatever failed.
C2_NoRegression ==
    pc = "ready" =>
        /\ \A k \in wasValid : m_shaders[k] # Sentinel
        /\ \A k \in Kinds : fresh[k] # Sentinel => m_shaders[k] = fresh[k]

\* C2 witness: after a reload in which a previously valid kind failed, that
\* kind is still valid and all the others carry their new programs.
C2_Witness ==
    /\ pc = "ready" /\ loads >= 2
    /\ \E k \in wasValid :
         /\ fresh[k] = Sentinel /\ m_shaders[k] # Sentinel
         /\ \A j \in Kinds \ {k} :
                fresh[j] # Sentinel /\ m_shaders[j] = fresh[j]
                                    /\ m_shaders[j] # entry_shaders[j]

\* C3 (as claimed): after the constructor's pass getShader reports a
\* non-sentinel program for every kind but ES_MIPVIZ.
C3_RequiredKindsValidAfterInit ==
    (pc = "ready" /\ loads = 1) =>
        \A k \in Required : getShader(k) # Sentinel

\* C4 (as claimed): the first load never reaches Ready when a required
\* kind failed to build in it.
C4_FirstLoadFailureIsFatal ==
    ~ (/\ pc = "ready" /\ loads = 1
       /\ \E k \in Required : fresh[k] = Sentinel)

\* C5: once the check loop of a pass has run, the log names kind i for that
\* pass exactly once if the build of i returned -1 and i is not ES_MIPVIZ,
\* and not at all otherwise (also when i then falls back to its previous
\* program); before the check loop the log holds nothing for the pass.
C5_Diagnostics ==
    /\ Checked =>
         \A i \in Kinds :
            LogCount(PassNo, i) =
                IF fresh[i] = Sentinel /\ i # "ES_MIPVIZ" THEN 1 ELSE 0
    /\ ~Checked => \A i \in Kinds : LogCount(PassNo, i) = 0

\* C5 witness: a reload returned in which a required kind and ES_MIPVIZ both
\* failed; the required kind kept its previous program and was logged once,
\* ES_MIPVIZ was not logged.
C5_Witness ==
    /\ pc = "ready" /\ loads >= 2
    /\ fresh["ES_MIPVIZ"] = Sentinel /\ LogCount(loads, "ES_MIPVIZ") = 0
    /\ \E k \in Required :
         /\ fresh[k] = Sentinel /\ entry_shaders[k] # Sentinel
         /\ m_shaders[k] = entry_shaders[k]
         /\ LogCount(loads, k) = 1

\* C6: a kind whose build failed in the previous pass and succeeds in this
\* one holds, when the pass returns, the handle built in this pass and no
\* longer the handle it entered the pass with.
C6_Recovery ==
    (pc = "ready" /\ loads >= 2) =>
        \A k \in Kinds :
            (prevFresh[k] = Sentinel /\ fresh[k] # Sentinel) =>
                /\ m_shaders[k] = fresh[k]
                /\ m_shaders[k] # entry_shaders[k]

\* C6 witness: the kind entered the pass on its fallback program (kept by
\* the previous, failed reload) and left it with the newly built one.
C6_Witness ==
    /\ pc = "ready" /\ loads >= 3
    /\ \E k \in Kinds :
         /\ prevFresh[k] = Sentinel /\ entry_shaders[k] # Sentinel
         /\ fresh[k] # Sentinel /\ m_shaders[k] = fresh[k]

\* every kind's build had the same outcome in this pass as in the previous
SameOutcome ==
    \A k \in Kinds : (fresh[k] = Sentinel) <=> (prevFresh[k] = Sentinel)

C8_StaticKeepsPrevious ==
    (pc = "ready" /\ loads >= 2) =>
        \A s \in StaticShaders :
            (freshProgram[s] = Sentinel /\ entryProgram[s] > 0) =>
                Program[s] = entryProgram[s]

\* C9 (as claimed): at every step inside a pass the current table holds no
\* sentinel for a kind that was valid when the pass started, and an entry
\* differs from its value at the start only by a successfully built handle.
C9_TableNeverSentinelInPass ==
    InPass =>
        \A k \in Kinds :
            /\ entry_shaders[k] # Sentinel => m_shaders[k] # Sentinel
            /\ m_shaders[k] # entry_shaders[k] => m_shaders[k] # Sentinel

\* C9 (amended): inside a pass the previous table is kept apart, unchanged,
\* in saved_shaders, so a kind that was valid at the start and whose build
\* wrote -1 into the current table can be restored; from the end of the
\* merge loop on no kind that was valid at the start is sentinel.
C9_CopyThenMerge ==
    /\ InPass => saved_shaders = entry_shaders
    /\ pc \in {"buffers", "inits", "ready"} =>
          \A k \in Kinds : entry_shaders[k] # Sentinel => m_shaders[k] # Sentinel

\* C9 witness: between a failed build and the merge loop the current table
\* holds -1 for a kind that was valid at the start, and saved_shaders holds
\* its previous program.
C9_Witness ==
    /\ pc = "check"
    /\ \E k \in Kinds :
         /\ entry_shaders[k] # Sentinel /\ m_shaders[k] = Sentinel
         /\ saved_shaders[k] = entry_shaders[k]

\* C10 (as claimed): after any number of passes the number of shared buffers
\* in existence is the size of the catalogue.
C10_SharedBuffersAllocatedOnce ==
    pc = "ready" => SharedAllocated = Len(SharedOrder)

\* GL program objects in existence: nothing in the file deletes a program
AllocatedPrograms == 1..(nextProgram - 1)

\* C11 (as claimed): after the destructor no program and no shared or
\* per-shader buffer created by loadShaders remains allocated.
C11_TeardownReleasesAll ==
    pc = "destroyed" => (AllocatedPrograms = {} /\ glBuffers = << >>)

\* the last operation was a setUniforms of shader s
DrewWith(s) == lastOp.op = "setUniforms" /\ lastOp.shader = s

\* C12 (as claimed): no setUniforms of a program of the file writes a
\* sampler uniform (the samplers having been given their units when the
\* program was built).
C12_SamplersFixedAtBuild ==
    \A s \in DrawnStatic :
        DrewWith(s) =>
            \A i \in 1..Len(glTrace) : glTrace[i].name \notin StaticSamplers(s)

C14_GatedAlwaysLoaded ==
    \A c \in GatedShaders : instance[c].built => instance[c].loaded

\* the static-init shaders and singleton instances whose build bound the
\* block "MatrixesData" and has a program
BlockPrograms ==
    {Program[s] : s \in {t \in StaticShaders : StaticBindsBlock(t)}}
        \cup {instance[c].Program :
                c \in {d \in Classes : instance[d].loaded /\ ClassBindsBlock(d)}}

\* C15: every program that binds the block "MatrixesData" has it at binding
\* point 0, and no program has it at any other binding point.
C15_CameraBlockSlot ==
    /\ \A e \in blockBinding : e[2] = 0
    /\ pc = "ready" =>
          \A P \in BlockPrograms : P >= 1 => <<P, 0>> \in blockBinding

\* C15 witness: a static-init shader and a singleton have bound the block.
C15_Witness ==
    /\ pc = "ready"
    /\ <<Program["ColoredLine"], 0>> \in blockBinding
    /\ \E c \in Classes : instance[c].loaded /\ c \notin GatedShaders
                            /\ <<instance[c].Program, 0>> \in blockBinding

\* loadShaders has been called and has not returned
InLoadShaders == pc = "save" \/ InPass

\* the last operation read the registry for a draw
Drew == lastOp.op \in {"setUniforms", "getShader"}

HasGeometry(stages) ==
    \E i \in 1..Len(stages) : stages[i][1] = "GL_GEOMETRY_SHADER"

\* C17: a capability-gated constructor makes no LoadProgram call when the
\* GLSL version is below 150; from 150 on it makes one, whose stage list
\* has a geometry stage exactly when the vertex-shader-layer extension is
\* absent, and the uniform names and texture units assigned afterwards do
\* not depend on the path taken.
C17_StageSelection ==
    \A c \in GatedShaders :
        instance[c].built =>
            /\ caps.glsl < 150 =>
                   ~instance[c].loaded /\ instance[c].stages = << >>
            /\ caps.glsl >= 150 =>
                   /\ instance[c].loaded
                   /\ instance[c].stages # << >>
                   /\ HasGeometry(instance[c].stages) <=> ~caps.vsLayer
                   /\ instance[c].TU = SingletonTexUnits(c)
                   /\ Len(instance[c].uniforms) = Len(ClassUniforms(c))

\* C17 witness: a gated shader built with a geometry stage on a driver
\* without the extension.
C17_Witness ==
    /\ ~caps.vsLayer /\ caps.glsl >= 150
    /\ \E c \in GatedShaders :
         /\ instance[c].loaded /\ HasGeometry(instance[c].stages)
         /\ instance[c].TU # << >> /\ instance[c].uniforms # << >>

\* the program in use when call i of the trace is made (0 before the first
\* glUseProgram of the trace)
InUseAt(trace, i) ==
    LET uses == {j \in 1..(i - 1) : trace[j].call = "glUseProgram"} IN
    IF uses = {} THEN 0
    ELSE trace[CHOOSE j \in uses : \A k \in uses : k <= j].prog

\* C18: AssignTextureUnit(Program, t1, ..., tn), n >= 1, makes n sampler
\* assignments, the i-th writing the unit of ti to the location looked up
\* for the sampler name of ti, all of them while Program is in use, and
\* leaves program 0 in use.
C18_AssignTextureUnit ==
    \A c \in Classes :
        (lastOp.op = "ctor" /\ lastOp.shader = c /\ instance[c].loaded
           /\ SingletonTexUnits(c) # << >>) =>
            LET units == SingletonTexUnits(c)
                n == Len(units)
                P == instance[c].Program IN
            /\ Len(glTrace) = n + 2
            /\ Cardinality({j \in 1..Len(glTrace) :
                                glTrace[j].call = "glUniform1i"}) = n
            /\ \A i \in 1..n :
                   /\ glTrace[i + 1].call = "glUniform1i"
                   /\ glTrace[i + 1].name = units[i][2]
                   /\ glTrace[i + 1].val = units[i][1]
                   /\ glTrace[i + 1].loc = glGetUniformLocation(P, units[i][2])
                   /\ InUseAt(glTrace, i + 1) = P
            /\ InUseAt(glTrace, Len(glTrace) + 1) = 0

\* C18 witness: the constructor of RadianceHintsConstructionShader assigned
\* its three samplers.
C18_Witness ==
    /\ lastOp.op = "ctor" /\ lastOp.shader = "RadianceHintsConstructionShader"
    /\ instance["RadianceHintsConstructionShader"].loaded
    /\ Len(glTrace) = Len(SingletonTexUnits("RadianceHintsConstructionShader")) + 2
    /\ glTrace[Len(glTrace) - 1].name = "dtex"

\* the names of CameraUniforms
CameraNames == {CameraUniforms[i] : i \in 1..Len(CameraUniforms)}

\* C19: setUniforms of ColoredLine, SkyboxShader and PointLightShader
\* starts with the five writes of bypassUBO (ViewMatrix, ProjectionMatrix,
\* InverseViewMatrix, InverseProjectionMatrix, screen, in this order) when
\* needUBOWorkaround() is true, followed by the shader's own uniforms, and
\* writes none of the five when it is false.
C19_BypassUBO ==
    \A s \in {"ColoredLine", "SkyboxShader", "PointLightShader"} :
        DrewWith(s) =>
            /\ caps.uboWorkaround =>
                   /\ Len(glTrace) > 5
                   /\ << glTrace[1].name, glTrace[2].name, glTrace[3].name,
                         glTrace[4].name, glTrace[5].name >>
                        = << "ViewMatrix", "ProjectionMatrix", "InverseViewMatrix",
                             "InverseProjectionMatrix", "screen" >>
                   /\ \A i \in 6..Len(glTrace) : glTrace[i].name \notin CameraNames
            /\ ~caps.uboWorkaround =>
                   \A i \in 1..Len(glTrace) : glTrace[i].name \notin CameraNames

\* C19 witness: PointLightShader::setUniforms on a driver that needs the
\* workaround wrote the camera state and then spec, ntex, dtex.
C19_Witness ==
    /\ DrewWith("PointLightShader") /\ caps.uboWorkaround
    /\ Len(glTrace) = 8
    /\ glTrace[6].name = "spec"

\* C20: a uniform name the program does not have resolves to -1 and neither
\* init() nor a later setUniforms fails, except that loadShaders does not
\* survive SimpleParticleRender::init when color_from or color_to is absent
\* and assert() is compiled in.
C20_MissingUniformPolicy ==
    /\ pc = "aborted" =>
          caps.asserts /\ missing \cap {"color_from", "color_to"} # {}
    /\ (pc = "ready" /\ caps.asserts) =>
          missing \cap {"color_from", "color_to"} = {}
    /\ (caps.asserts /\ missing \cap {"color_from", "color_to"} # {}) =>
          loads = 0
    /\ Drew => \A i \in 1..Len(glTrace) :
                  glTrace[i].name \in missing => glTrace[i].loc = -1

\* C20 witness: with assert() compiled in and "tex" absent, loadShaders
\* returned and SimpleParticleRender::setUniforms passed -1 for tex.
C20_Witness ==
    /\ pc = "ready" /\ caps.asserts /\ missing = {"tex"}
    /\ DrewWith("SimpleParticleRender")
    /\ \E i \in 1..Len(glTrace) :
         glTrace[i].name = "tex" /\ glTrace[i].loc = -1


\* C21: a loadShaders pass that has started always returns, whichever kinds
\* fail to build: no state of a run is an aborted pass, and a registry whose
\* pass has returned has run the shared-buffer initialisation and every
\* static init() of the build.
C21_PassCompletes ==
    /\ [](pc # "aborted")
    /\ [](pc = "ready" =>
            /\ \A b \in SharedBuffers : SharedObject[b] # 0
            /\ \A s \in StaticShaders :
                  (s \notin ComputeShaders \/ computeOK) => Program[s] # 0)
    /\ (pc \in {"save", "build", "check", "merge", "buffers", "inits"})
          ~> (pc = "ready")

\* a pass returned although a required and an optional kind failed in it
C21_Witness ==
    /\ pc = "ready"
    /\ fresh["ES_SKYBOX"] = Sentinel
    /\ fresh["ES_MIPVIZ"] = Sentinel
    /\ <<loads, "ES_SKYBOX">> \in {log[j] : j \in 1..Len(log)}

\* C22: the data store of every shared geometry buffer and of the camera
\* block holds what its own init function put there: no init(), constructor
\* or setUniforms of a shader has written it since.
C22_SharedGeometryReadOnly ==
    /\ Len(bufferData) = Len(glBuffers)
    /\ \A n \in 1..Len(glBuffers) :
         glBuffers[n] \in SharedBuffers => bufferData[n] = SharedInit(glBuffers[n])

\* after a reload and a draw, ColoredTextureRectShader::init() has bound
\* quad_buffer into its vertex array and filled its own colour buffer
C22_Witness ==
    /\ pc = "ready"
    /\ loads >= 2
    /\ lastOp.op = "setUniforms"
    /\ SharedObject["quad_buffer"] \in vao["ColoredTextureRectShader"].bufs
    /\ \E n \in vao["ColoredTextureRectShader"].bufs :
         /\ glBuffers[n] = "ColoredTextureRectShader"
         /\ bufferData[n] = "ColoredTextureRectShader"

\* C23: within one pass every kind's build is attempted at most once, and
\* once the build statements are behind exactly once, whether it returned a
\* program or -1; a kind whose build has failed is not built again before
\* the next pass starts.
C23_NoRetries ==
    /\ \A k \in Kinds : attempts[k] <= 1
    /\ (pc \in {"check", "merge", "buffers", "inits"} \/ (pc = "ready" /\ loads >= 1))
          => \A k \in Kinds : attempts[k] = 1 /\ fresh[k] # NotBuilt

\* a pass has returned in which a kind's single build failed
C23_Witness ==
    /\ pc = "ready"
    /\ loads >= 2
    /\ \E k \in Kinds : fresh[k] = Sentinel /\ attempts[k] = 1

\* buffer object n is the one generated last for its owner
LatestOfOwner(n) ==
    /\ n \in 1..Len(glBuffers)
    /\ \A m \in (n + 1)..Len(glBuffers) : glBuffers[m] # glBuffers[n]

\* C24: when a pass returns, the vertex array of every static init() shader
\* references, for each shared buffer its init() binds, the buffer object
\* generated for that global in this pass, and references neither handle 0
\* nor a buffer object of an earlier pass.
C24_GeometryBeforeUse ==
    pc = "ready" =>
        \A s \in StaticShaders :
            /\ \A b \in StaticShared(s) :
                 \E n \in vao[s].bufs : LatestOfOwner(n) /\ glBuffers[n] = b
            /\ \A n \in vao[s].bufs : n # 0 /\ LatestOfOwner(n)

\* a reload has returned: SkyboxShader's vertex array references the cube
\* buffers generated in that pass, not those of the first pass
C24_Witness ==
    /\ pc = "ready"
    /\ loads >= 2
    /\ vao["SkyboxShader"].bufs =
          {SharedObject["cubevbo"], SharedObject["cubeindexes"]}
    /\ \A n \in vao["SkyboxShader"].bufs : n > Len(SharedOrder)
    /\ SharedObject["tri_vbo"] \in vao["BloomShader"].bufs

\* the delete expressions of the destructor that were applied to object o
DeletesOf(o) ==
    {j \in 1..Len(glTrace) : glTrace[j].call = "delete" /\ glTrace[j].name = o}

\* C25: after the destructor every callback object the constructor created
\* has been deleted exactly once and none is left allocated; the shared
\* GaussianBlurProvider is deleted through the ES_GAUSSIAN3H slot, and no
\* delete is applied to an empty slot.
C25_CallbackOwnership ==
    pc = "destroyed" =>
        /\ heap = {}
        /\ \A o \in NewCallbacks : Cardinality(DeletesOf(o)) = 1
        /\ \A j \in DeletesOf("GaussianBlurProvider") :
             KindOrder[glTrace[j].prog] = "ES_GAUSSIAN3H"
        /\ \A j \in 1..Len(glTrace) : glTrace[j].name # NULL

\* the destructor has run on a registry that was reloaded: ten objects for
\* eleven occupied slots
C25_Witness ==
    /\ pc = "destroyed"
    /\ loads >= 2
    /\ Len(glTrace) = Cardinality(NewCallbacks)
    /\ Cardinality({k \in Kinds : m_callbacks[k] # NULL}) = Cardinality(NewCallbacks) + 1
    /\ DeletesOf("SunLightProvider") # {}

\* the build sites that read a callback slot
CallbackSites == {i \in 1..Len(BuildOrder) : BuildOrder[i].cb # NULL}

\* C26: when the first pass starts, every table entry is -1 and every slot a
\* build reads holds an object; when the first pass has returned, a kind is
\* -1 exactly if its build in that pass returned -1; and in every pass a
\* build that reads a slot the constructor filled receives an object.
C26_ConstructorOrdering ==
    /\ (pc = "save" /\ loads = 0) =>
          /\ \A k \in Kinds : m_shaders[k] = Sentinel
          /\ \A i \in CallbackSites : m_callbacks[BuildOrder[i].cb] # NULL
    /\ (pc = "ready" /\ loads = 1) =>
          \A k \in Kinds : (m_shaders[k] = Sentinel) <=> (fresh[k] = Sentinel)
    /\ \A i \in CallbackSites :
          (/\ builtWith[BuildOrder[i].kind] # Unbuilt
           /\ CtorCallbacks[BuildOrder[i].cb] # NULL)
             => builtWith[BuildOrder[i].kind] = CtorCallbacks[BuildOrder[i].cb]

\* the first pass has returned with a failed kind left at -1, and
\* ES_PASSFAR was built with the object of the ES_COLORIZE slot
C26_Witness ==
    /\ pc = "ready"
    /\ loads = 1
    /\ fresh["ES_SKYBOX"] = Sentinel
    /\ m_shaders["ES_SKYBOX"] = Sentinel
    /\ m_shaders["ES_WATER"] # Sentinel
    /\ builtWith["ES_PASSFAR"] = "ColorizeProvider"

\* C27: every kind for which the constructor registered a callback object
\* has been built with that object as its callback argument.
C27_CallbackAssociation ==
    \A k \in Kinds :
        (CtorCallbacks[k] # NULL /\ builtWith[k] # Unbuilt)
            => builtWith[k] = m_callbacks[k]

\* C28: a loadShaders pass leaves every singleton instance as it was when
\* the pass was entered (Program, texture units, vertex array), and an
\* instance constructed before a pass is the same object, with the same
\* Program, ever after; the pass rebuilds the table kinds and the static
\* init() shaders only.
C28_ReloadScope ==
    /\ (InPass \/ (pc = "ready" /\ lastOp.op = "loadShaders")) =>
          instance = entryInstance
    /\ \A c \in Classes :
          entryInstance[c].built => instance[c] = entryInstance[c]

\* a reload has returned: the static init() shaders have new programs, the
\* singleton constructed before it keeps its own
C28_Witness ==
    /\ pc = "ready"
    /\ loads >= 2
    /\ lastOp.op = "loadShaders"
    /\ Program["BloomBlendShader"] # entryProgram["BloomBlendShader"]
    /\ \E c \in Singletons :
         /\ entryInstance[c].built
         /\ instance[c].Program > 0
         /\ instance[c].TU # << >>

\* the entry of kind k that the last completed pass left in the table
Committed(k) == IF fresh[k] # Sentinel THEN fresh[k] ELSE entry_shaders[k]

\* C29: getShader(num) returns the entry of kind num as the last completed
\* pass left it, which can be -1, and neither a getShader call nor the
\* check loop changes the table, the callbacks or any GL object.
C29_ReadOnlyAccessors ==
    /\ [](lastOp.op = "getShader" =>
            /\ pc = "ready"
            /\ Len(glTrace) = 1
            /\ glTrace[1].prog = m_shaders[lastOp.shader]
            /\ glTrace[1].prog = Committed(lastOp.shader))
    /\ [][(lastOp'.op = "getShader" \/ pc = "check") =>
            UNCHANGED << m_shaders, m_callbacks, saved_shaders, nextMaterial,
                         glVars, instance, heap, blockBinding >>]_vars

\* getShader returned -1 for a kind whose build failed in the only pass so
\* far, after the check loop had reported it
C29_Witness ==
    /\ pc = "ready"
    /\ loads = 1
    /\ lastOp.op = "getShader"
    /\ glTrace[1].prog = Sentinel
    /\ <<1, lastOp.shader>> \in {log[j] : j \in 1..Len(log)}

=============================================================================
